---- MODULE Spec2Model ----
(***************************************************************************)
(* A model of analytics/timeline.py: the Timeline event accumulator, its   *)
(* interval partition and the statistics computed from the partition.      *)
(*                                                                         *)
(* A time value handed to the Timeline is None, pandas.NaT, or a timestamp *)
(* with sub-second resolution.  A timestamp is modelled by its number of   *)
(* ticks since the epoch, Scale ticks making one second, so that the       *)
(* conversion _ts2int (int(), truncation toward zero) is not the identity. *)
(* Python integers are unbounded, so no width is modelled.                 *)
(***************************************************************************)
EXTENDS Integers, Sequences, FiniteSets, Bags, TLC

\* Ticks per second of the timestamps handed in.
Scale == 2
\* Direct add calls explored between two resets.
MaxAdds == 3
\* Rows of the DataFrame handed to count.
MaxRecords == 2

VARIABLES
    start,      \* self.start, as handed to the constructor
    start_int,  \* self.start_int
    end,        \* self.end
    end_int,    \* self.end_int
    local,      \* self.local
    timeline,   \* self.timeline: the SortedKeyList of [unix_seconds, delta]
    calls,      \* history: the bag of <<instant, delta>> applied since the last _reset
    last        \* history: the last call, its arguments, its outcome and, for
                \* add, the timeline as the call found it

vars == <<start, start_int, end, end_int, local, timeline, calls, last>>

----------------------------------------------------------------------------
(* Time values *)

None == [kind |-> "None", v |-> 0]
NaT == [kind |-> "NaT", v |-> 0]
Ts(ticks) == [kind |-> "ts", v |-> ticks]
\* The timestamp s seconds after the epoch, and the one a tick later.
Whole(s) == Ts(s * Scale)
Frac(s) == Ts(s * Scale + 1)

min(a, b) == IF a <= b THEN a ELSE b
max(a, b) == IF a >= b THEN a ELSE b

\* _ts2int: int(ts.timestamp()) or int(ts); int() truncates toward zero.
ts2int(ts) == IF ts.v >= 0 THEN ts.v \div Scale ELSE -((-ts.v) \div Scale)

\* _int2ts: pandas.Timestamp(i, unit="s").
int2ts(i) == Ts(i * Scale)

----------------------------------------------------------------------------
(* The SortedKeyList, keyed by x[0] *)

\* irange_key(lo, hi): the positions of the values whose key is in [lo, hi], in order.
irange_key(tl, lo, hi) ==
    LET F[i \in 0..Len(tl)] ==
            IF i = 0 THEN <<>>
            ELSE IF lo <= tl[i][1] /\ tl[i][1] <= hi THEN Append(F[i - 1], i)
                 ELSE F[i - 1]
    IN  F[Len(tl)]

\* A list append: the value goes last whatever its key.
SortedKeyList_append(tl, val) == Append(tl, val)

\* SortedKeyList.add: the value goes after every value whose key is <= its key.
SortedKeyList_add(tl, val) ==
    LET k == Cardinality({i \in 1..Len(tl) : tl[i][1] <= val[1]})
    IN  SubSeq(tl, 1, k) \o <<val>> \o SubSeq(tl, k + 1, Len(tl))

----------------------------------------------------------------------------
(* Timeline.add *)

\* The clamp with its two bounds exchanged.
clamp_max_min(x, s, e) == max(s, min(e, x))

\* The clamp without its upper bound.
clamp_lower_only(x, s, e) == max(x, s)

\* min(max(x, self.start_int), self.end_int)
clamp(x, s, e) == min(max(x, s), e)

\* An absent time lands on the window's start.
add_instant_absent_start(time, s, e) ==
    IF time = None \/ time = NaT THEN s ELSE clamp(ts2int(time), s, e)

\* The instant t an add call works on.
add_instant(time, s, e) ==
    IF time = None \/ time = NaT THEN e ELSE clamp(ts2int(time), s, e)

\* The lookup is skipped: every call inserts.
add_entry_always_insert(tl, t, delta) == SortedKeyList_add(tl, <<t, delta>>)

\* The first entry at t gets the delta; with none, [t, delta] is inserted.
add_entry(tl, t, delta) ==
    LET hits == irange_key(tl, t, t)
    IN  IF hits # <<>>
        THEN [tl EXCEPT ![Head(hits)] = <<t, tl[Head(hits)][2] + delta>>]
        ELSE SortedKeyList_add(tl, <<t, delta>>)

\* _reset that keeps what is stored.
reset_keep(tl) == tl

\* _reset: a new, empty SortedKeyList.
reset_timeline(tl) == <<>>

----------------------------------------------------------------------------
(* Timeline.count *)

\* The fields of a row the loop reads: the local pair when self.local is set.
row_start(row, loc) == IF loc THEN row.start_time_local ELSE row.start_time
row_end(row, loc) == IF loc THEN row.end_time_local ELSE row.end_time

\* for index, row in data.iterrows(): add(start, 1); add(end, -1)
RECURSIVE count_loop(_, _, _, _, _)
count_loop(tl, data, loc, s, e) ==
    IF data = <<>> THEN tl
    ELSE LET row == Head(data)
             tl1 == add_entry(tl, add_instant(row_start(row, loc), s, e), 1)
             tl2 == add_entry(tl1, add_instant(row_end(row, loc), s, e), -1)
         IN  count_loop(tl2, Tail(data), loc, s, e)

\* The add calls the loop makes, as a bag of <<instant, delta>>.
RECURSIVE count_calls(_, _, _, _)
count_calls(data, loc, s, e) ==
    IF data = <<>> THEN EmptyBag
    ELSE SetToBag({<<add_instant(row_start(Head(data), loc), s, e), 1>>})
         (+) SetToBag({<<add_instant(row_end(Head(data), loc), s, e), -1>>})
         (+) count_calls(Tail(data), loc, s, e)

----------------------------------------------------------------------------
(* Timeline.partition and the statistics *)

\* The delta of the right endpoint is folded in.
row_delta_next(tl, i) == tl[i + 1][2]

\* count += self.timeline[i][1]
row_delta(tl, i) == tl[i][2]

\* The running count is overwritten instead of accumulated.
fold_overwrite(count, d) == d

\* count += ...
fold(count, d) == count + d

\* The loop of partition, i running over range(0, len(self.timeline) - 1),
\* here 1-based.
RECURSIVE partition_loop(_, _, _, _)
partition_loop(tl, i, count, partition) ==
    IF i > Len(tl) - 1 THEN partition
    ELSE LET c == fold(count, row_delta(tl, i))
             row == [start      |-> tl[i][1],
                     end        |-> tl[i + 1][1],
                     delta      |-> tl[i + 1][1] - tl[i][1],
                     count      |-> c,
                     start_date |-> int2ts(tl[i][1]),
                     end_date   |-> int2ts(tl[i + 1][1])]
         IN  partition_loop(tl, i + 1, c, Append(partition, row))

\* partition(): the rows of the DataFrame, in order.
partition_rows(tl) == partition_loop(tl, 1, 0, <<>>)

\* delta_x(): the column "delta".
delta_x_of(tl) == [i \in 1..Len(partition_rows(tl)) |-> partition_rows(tl)[i].delta]

Return(v) == [kind |-> "return", val |-> v]
Raise(x) == [kind |-> "raise", val |-> x]

\* max() of a sequence; of an empty one it raises ValueError.
max_of(seq) ==
    IF seq = <<>> THEN Raise("ValueError")
    ELSE Return(CHOOSE m \in {seq[i] : i \in 1..Len(seq)} :
                    \A i \in 1..Len(seq) : seq[i] <= m)

\* A quotient num / den, kept as a fraction; den = 0 is a division by zero.
Ratio(n, d) == [num |-> n, den |-> d]

\* sigma: the sum over the rows of count * delta.
RECURSIVE sigma_of(_)
sigma_of(rows) ==
    IF rows = <<>> THEN 0
    ELSE Head(rows).count * Head(rows).delta + sigma_of(Tail(rows))

\* The guard of average with < for <=.
average_guard_strict(tl) == Len(tl) < 1

\* if len(self.timeline) <= 1
average_guard(tl) == Len(tl) <= 1

\* The span of the stored instants instead of the window's length.
average_delta_observed(tl, s, e) == tl[Len(tl)][1] - tl[1][1]

\* delta = self._ts2int(self.end) - self._ts2int(self.start)
average_delta(tl, s, e) == ts2int(e) - ts2int(s)

\* average(): 0 on at most one stored instant, else sigma / delta.
average_of(tl, s, e) ==
    IF average_guard(tl) THEN Return(Ratio(0, 1))
    ELSE Return(Ratio(sigma_of(partition_rows(tl)), average_delta(tl, s, e)))

----------------------------------------------------------------------------
(* The inputs explored *)

\* The constructions explored, <<start, end, local>>: a window with fractional
\* and negative bounds, one read through the local fields, a window of one
\* instant (start = end) and an inverted one (start > end).
Constructions ==
    { <<Frac(-1), Frac(2), FALSE>>, <<Whole(1), Whole(3), TRUE>>,
      <<Whole(2), Whole(2), FALSE>>, <<Whole(3), Whole(0), FALSE>> }

\* The times handed to add: absent, before, inside and after the windows.
TimeInputs ==
    {None, NaT, Whole(-1), Frac(-1), Whole(1), Frac(1), Whole(2), Whole(4)}

Deltas == {-1, 1}

\* The local rendering of a time: one second ahead, an absent time staying absent.
local_of(time) == IF time.kind = "ts" THEN Ts(time.v + Scale) ELSE time

\* A row of the availability view.
Rec(a, b) ==
    [start_time |-> a, end_time |-> b,
     start_time_local |-> local_of(a), end_time_local |-> local_of(b)]

\* Rows: two adjacent intervals, an open-ended one, one ending before it
\* starts, one without a start.
Records ==
    { Rec(Frac(-1), Whole(1)), Rec(Whole(1), Whole(2)), Rec(Frac(1), NaT),
      Rec(Whole(2), Whole(-1)), Rec(NaT, Whole(1)) }

SeqsUpTo(S, n) == UNION {[1..k -> S] : k \in 0..n}

\* The DataFrames handed to count.
DataInputs == SeqsUpTo(Records, MaxRecords)

----------------------------------------------------------------------------
(* The state machine *)

NoArgs == <<>>

\* __init__(start, end, local): both bounds present, converted once, then _reset.
Init ==
    /\ \E c \in Constructions :
        /\ start = c[1]
        /\ end = c[2]
        /\ start_int = ts2int(c[1])
        /\ end_int = ts2int(c[2])
        /\ local = c[3]
    /\ timeline = reset_timeline(<<>>)
    /\ calls = EmptyBag
    /\ last = [op |-> "__init__", args |-> NoArgs, pre |-> <<>>, ret |-> Return(None)]

\* _reset()
reset ==
    /\ timeline' = reset_timeline(timeline)
    /\ calls' = EmptyBag
    /\ last' = [op |-> "_reset", args |-> NoArgs, pre |-> <<>>, ret |-> Return(None)]
    /\ UNCHANGED <<start, start_int, end, end_int, local>>

\* add(time, delta); at most MaxAdds direct calls between two resets are explored.
add(time, delta) ==
    /\ BagCardinality(calls) < MaxAdds
    /\ LET t == add_instant(time, start_int, end_int)
       IN  /\ timeline' = add_entry(timeline, t, delta)
           /\ calls' = calls (+) SetToBag({<<t, delta>>})
    /\ last' = [op |-> "add", args |-> <<time, delta>>, pre |-> timeline, ret |-> Return(None)]
    /\ UNCHANGED <<start, start_int, end, end_int, local>>

\* count(data): _reset, then the two add calls of every row; returns self.
count(data) ==
    /\ timeline' = count_loop(reset_timeline(timeline), data, local, start_int, end_int)
    /\ calls' = count_calls(data, local, start_int, end_int)
    /\ last' = [op |-> "count", args |-> <<data>>, pre |-> <<>>, ret |-> Return(None)]
    /\ UNCHANGED <<start, start_int, end, end_int, local>>

\* partition()
partition ==
    /\ last' = [op |-> "partition", args |-> NoArgs, pre |-> <<>>,
                ret |-> Return(partition_rows(timeline))]
    /\ UNCHANGED <<start, start_int, end, end_int, local, timeline, calls>>

\* delta_x()
delta_x ==
    /\ last' = [op |-> "delta_x", args |-> NoArgs, pre |-> <<>>,
                ret |-> Return(delta_x_of(timeline))]
    /\ UNCHANGED <<start, start_int, end, end_int, local, timeline, calls>>

\* norm(): max(self.delta_x())
norm ==
    /\ last' = [op |-> "norm", args |-> NoArgs, pre |-> <<>>,
                ret |-> max_of(delta_x_of(timeline))]
    /\ UNCHANGED <<start, start_int, end, end_int, local, timeline, calls>>

\* dimension(): len(self.partition())
dimension ==
    /\ last' = [op |-> "dimension", args |-> NoArgs, pre |-> <<>>,
                ret |-> Return(Len(partition_rows(timeline)))]
    /\ UNCHANGED <<start, start_int, end, end_int, local, timeline, calls>>

\* average()
average ==
    /\ last' = [op |-> "average", args |-> NoArgs, pre |-> <<>>,
                ret |-> average_of(timeline, start, end)]
    /\ UNCHANGED <<start, start_int, end, end_int, local, timeline, calls>>

Next ==
    \/ reset
    \/ \E time \in TimeInputs, delta \in Deltas : add(time, delta)
    \/ \E data \in DataInputs : count(data)
    \/ partition
    \/ delta_x
    \/ norm
    \/ dimension
    \/ average

Spec == Init /\ [][Next]_vars

----------------------------------------------------------------------------
(* The worked example: the window [0, 10] and whole-second intervals *)

ExampleSeconds == {0, 2, 5, 7}

\* The intervals (a, b), a < b, over the example's seconds.
ExampleRecords ==
    {Rec(Whole(iv[1]), Whole(iv[2])) :
        iv \in {p \in ExampleSeconds \X ExampleSeconds : p[1] < p[2]}}

ExampleData == SeqsUpTo(ExampleRecords, MaxRecords)

InitExample ==
    /\ start = Whole(0)
    /\ end = Whole(10)
    /\ start_int = ts2int(Whole(0))
    /\ end_int = ts2int(Whole(10))
    /\ local = FALSE
    /\ timeline = reset_timeline(<<>>)
    /\ calls = EmptyBag
    /\ last = [op |-> "__init__", args |-> NoArgs, pre |-> <<>>, ret |-> Return(None)]

NextExample ==
    \/ reset
    \/ \E data \in ExampleData : count(data)
    \/ partition
    \/ delta_x
    \/ norm
    \/ dimension
    \/ average

SpecExample == InitExample /\ [][NextExample]_vars

----------------------------------------------------------------------------
(* Vocabulary of the properties *)

IsAbsent(time) == time = None \/ time = NaT

\* The instants the accumulator stores.
Stored(tl) == {tl[i][1] : i \in 1..Len(tl)}

\* The sum of the deltas stored in the entries whose instant is in T.
RECURSIVE SumIn(_, _)
SumIn(tl, T) ==
    IF tl = <<>> THEN 0
    ELSE (IF Head(tl)[1] \in T THEN Head(tl)[2] ELSE 0) + SumIn(Tail(tl), T)

ValueAt(tl, t) == SumIn(tl, {t})

\* The entries at the instants other than t, in order.
Others(tl, t) == SelectSeq(tl, LAMBDA val : val[1] # t)

\* A call add(., d) landed on t: t is stored, holds d more than before, and
\* every other entry is as it was.
AppliedAt(before, after, t, d) ==
    /\ t \in Stored(after)
    /\ ValueAt(after, t) = ValueAt(before, t) + d
    /\ Others(after, t) = Others(before, t)

StrictlyAscending(tl) == \A i \in 1..(Len(tl) - 1) : tl[i][1] < tl[i + 1][1]

\* The sum of the deltas of the calls of bag B that landed on t.
RECURSIVE SumCalls(_, _, _)
SumCalls(B, S, t) ==
    IF S = {} THEN 0
    ELSE LET c == CHOOSE x \in S : TRUE
         IN  (IF c[1] = t THEN c[2] * B[c] ELSE 0) + SumCalls(B, S \ {c}, t)

CallSum(B, t) == SumCalls(B, BagToSet(B), t)

Row4(r) == <<r.start, r.end, r.delta, r.count>>

----------------------------------------------------------------------------
(* C1 *)

\* C1 as stated: add(t, d) applies d at the stored instant max(s, min(e, t)),
\* at e when t is absent, and touches no other instant, whatever the window.
C1_ClampMaxMin ==
    last.op = "add" =>
        AppliedAt(last.pre, timeline,
                  IF IsAbsent(last.args[1]) THEN end_int
                  ELSE max(start_int, min(end_int, ts2int(last.args[1]))),
                  last.args[2])

\* C1, amended: add(t, d) applies d at the stored instant max(s, min(e, t))
\* when s <= e and at e when s > e or t is absent, and touches no other instant.
C1_ClampMinMax ==
    last.op = "add" =>
        AppliedAt(last.pre, timeline,
                  IF IsAbsent(last.args[1]) \/ start_int > end_int THEN end_int
                  ELSE max(start_int, min(end_int, ts2int(last.args[1]))),
                  last.args[2])

\* An add of a present time on the inverted window, landing on the entry at end.
C1_Witness ==
    /\ end_int < start_int
    /\ last.op = "add"
    /\ ~IsAbsent(last.args[1])
    /\ Len(last.pre) = 1
    /\ timeline = <<<<end_int, last.pre[1][2] + last.args[2]>>>>

(* C2 *)

\* C2: the accumulator holds one entry per instant, in strictly ascending
\* order, each holding the sum of the deltas of the add calls since the last
\* reset that landed on its instant, and stores exactly the instants landed on.
C2_Coalesced ==
    /\ StrictlyAscending(timeline)
    /\ Stored(timeline) = {c[1] : c \in BagToSet(calls)}
    /\ \A i \in 1..Len(timeline) : timeline[i][2] = CallSum(calls, timeline[i][1])

\* Two adds of 1 at one instant of a proper window: one entry holding 2.
C2_Witness ==
    /\ start_int < end_int
    /\ last.op = "add"
    /\ BagCardinality(calls) = 2
    /\ Len(last.pre) = 1
    /\ last.pre[1][2] = 1
    /\ last.args[2] = 1
    /\ timeline = <<<<last.pre[1][1], 2>>>>

(* C3 *)

\* C3: the rows of partition() are contiguous, each of a strictly positive
\* width equal to end - start, and dimension() is max(0, n - 1) for n distinct
\* stored instants.
C3_PartitionShape ==
    /\ last.op = "partition" =>
        LET rows == last.ret.val
        IN  /\ \A i \in 1..Len(rows) :
                    rows[i].delta > 0 /\ rows[i].delta = rows[i].end - rows[i].start
            /\ \A i \in 1..(Len(rows) - 1) : rows[i].end = rows[i + 1].start
            /\ Len(rows) = max(0, Cardinality(Stored(timeline)) - 1)
    /\ last.op = "dimension" =>
        last.ret = Return(max(0, Cardinality(Stored(timeline)) - 1))

\* dimension() on three stored instants returns 2.
C3_Witness ==
    /\ last.op = "dimension"
    /\ Cardinality(Stored(timeline)) = 3
    /\ last.ret = Return(2)

(* C4 *)

\* C4: the count of a row is the sum of the deltas stored at or before its
\* start, the one at its start included; the deltas stored at its end and
\* after, the last stored one among them, are left out.
C4_CumulativeCount ==
    last.op = "partition" =>
        LET rows == last.ret.val
        IN  \A i \in 1..Len(rows) :
                /\ rows[i].count = SumIn(timeline, {t \in Stored(timeline) : t <= rows[i].start})
                /\ rows[i].count =
                       SumIn(timeline, Stored(timeline))
                       - SumIn(timeline, {t \in Stored(timeline) : t >= rows[i].end})

\* A partition of two rows whose second row counts 2, the last delta not being 0.
C4_Witness ==
    /\ last.op = "partition"
    /\ Len(last.ret.val) = 2
    /\ last.ret.val[2].count = 2
    /\ timeline[3][2] # 0

(* C5 *)

\* The presence intervals (0, 5) and (2, 7), and the add calls they make on
\* the window [0, 10].
ExampleIntervals == <<Rec(Whole(0), Whole(5)), Rec(Whole(2), Whole(7))>>
ExampleCalls == count_calls(ExampleIntervals, FALSE, 0, 10)
ExampleRows == << <<0, 2, 2, 1>>, <<2, 5, 3, 2>>, <<5, 7, 2, 1>> >>

\* Whether a returned quotient equals n / d.
Equals(ret, n, d) ==
    ret.kind = "return" /\ ret.val.den # 0 /\ ret.val.num * d = n * ret.val.den

\* What the example is checked to give: the rows of partition(), and n / d
\* from average().
ExampleGives(n, d) ==
    /\ (last.op = "count" /\ last.args = <<ExampleIntervals>>) =>
            /\ calls = ExampleCalls
            /\ [i \in 1..Len(partition_rows(timeline)) |->
                    Row4(partition_rows(timeline)[i])] = ExampleRows
            /\ Equals(average_of(timeline, start, end), n, d)
    /\ (last.op = "partition" /\ calls = ExampleCalls) =>
            [i \in 1..Len(last.ret.val) |-> Row4(last.ret.val[i])] = ExampleRows
    /\ (last.op = "average" /\ calls = ExampleCalls) => Equals(last.ret, n, d)

\* C5 as stated: with (0, 5) and (2, 7) ingested on the window [0, 10],
\* partition() is (0,2,2,1), (2,5,3,2), (5,7,2,1) and average() is 1.4 = 14 / 10.
C5_ExampleAverage14 == ExampleGives(14, 10)

\* C5, amended: with (0, 5) and (2, 7) ingested on the window [0, 10],
\* partition() is (0,2,2,1), (2,5,3,2), (5,7,2,1) and average() is
\* (2*1 + 3*2 + 2*1) / 10 = 10 / 10 = 1.0.
C5_ExampleAverage10 == ExampleGives(10, 10)

\* average() has returned 10 / 10 on the example.
C5_Witness ==
    /\ start_int = 0
    /\ end_int = 10
    /\ calls = ExampleCalls
    /\ last.op = "average"
    /\ last.ret = Return(Ratio(2 * 1 + 3 * 2 + 2 * 1, 10))

(* C6 *)

\* C6: on zero or one stored instant, dimension() returns 0, average()
\* returns 0 and divides by nothing, norm() raises; the three leave the
\* accumulator as it was.
C6_Degenerate ==
    [][(Cardinality(Stored(timeline)) <= 1 /\ last'.op \in {"dimension", "average", "norm"})
        => /\ timeline' = timeline
           /\ last'.op = "dimension" => last'.ret = Return(0)
           /\ last'.op = "average" => Equals(last'.ret, 0, 1)
           /\ last'.op = "norm" => last'.ret.kind = "raise"]_vars

\* norm() has raised on a single stored instant.
C6_Witness ==
    /\ Len(timeline) = 1
    /\ last.op = "norm"
    /\ last.ret = Raise("ValueError")

(* C7 *)

\* C7: after count(data) the accumulator and the partition are those of
\* count(data) on a freshly constructed Timeline of the same window, whatever
\* was added or counted before.
C7_CountFromScratch ==
    last.op = "count" =>
        LET fresh == count_loop(<<>>, last.args[1], local, start_int, end_int)
        IN  /\ timeline = fresh
            /\ partition_rows(timeline) = partition_rows(fresh)
            /\ BagCardinality(calls) = 2 * Len(last.args[1])

\* count of two rows has left three stored instants.
C7_Witness ==
    /\ last.op = "count"
    /\ Len(last.args[1]) = 2
    /\ Len(timeline) = 3

(* C8 *)

\* C8 as stated: two consecutive rows of the partition never carry the same count.
C8_MaximalRows ==
    last.op = "partition" =>
        \A i \in 1..(Len(last.ret.val) - 1) :
            last.ret.val[i].count # last.ret.val[i + 1].count

\* C8, amended: two consecutive rows carry the same count exactly when the
\* delta stored at the instant they share is 0; such an instant stays stored
\* and splits a stretch of constant count into two rows.
C8_SplitAtZeroDelta ==
    last.op = "partition" =>
        \A i \in 1..(Len(last.ret.val) - 1) :
            (last.ret.val[i].count = last.ret.val[i + 1].count)
                <=> (ValueAt(timeline, last.ret.val[i].end) = 0)

\* A partition with two consecutive rows of one count.
C8_Witness ==
    /\ last.op = "partition"
    /\ Len(last.ret.val) = 2
    /\ last.ret.val[1].count = last.ret.val[2].count
    /\ timeline[2][2] = 0

(* C9 *)

\* C9: two or more stored instants imply end_int - start_int > 0; with
\* end_int <= start_int at most one instant is stored and average() returns
\* its early 0; average() never divides by zero.
C9_NoDivisionByZero ==
    /\ Len(timeline) >= 2 => end_int - start_int > 0
    /\ end_int <= start_int => Cardinality(Stored(timeline)) <= 1
    /\ last.op = "average" =>
        /\ last.ret.kind = "return"
        /\ last.ret.val.den # 0
        /\ end_int <= start_int => last.ret = Return(Ratio(0, 1))

\* average() has returned 0 on the inverted window after two adds.
C9_Witness ==
    /\ end_int < start_int
    /\ BagCardinality(calls) >= 2
    /\ last.op = "average"
    /\ last.ret = Return(Ratio(0, 1))

(* C10 *)

\* The fields count reads from a row.
StartOf(row) == row_start(row, local)
EndOf(row) == row_end(row, local)

\* start <= end, or the end is absent.
Ordered(row) ==
    \/ IsAbsent(EndOf(row))
    \/ ~IsAbsent(StartOf(row)) /\ StartOf(row).v <= EndOf(row).v

\* The end precedes the start.
EndFirst(row) ==
    ~IsAbsent(StartOf(row)) /\ ~IsAbsent(EndOf(row)) /\ EndOf(row).v < StartOf(row).v

\* The start is absent and the end is not.
StartMissing(row) == IsAbsent(StartOf(row)) /\ ~IsAbsent(EndOf(row))

RowsOf(data) == {data[i] : i \in 1..Len(data)}

NegativeRow(tl) == \E i \in 1..Len(partition_rows(tl)) : partition_rows(tl)[i].count < 0

\* C10 as stated: after count on a window with start <= end, rows that all
\* have start <= end or an absent end give counts >= 0 and deltas summing to
\* 0, and a negative count comes only from a row whose end precedes its start.
C10_NegativeOnlyIfEndFirst ==
    (last.op = "count" /\ start_int <= end_int) =>
        /\ (\A row \in RowsOf(last.args[1]) : Ordered(row)) =>
                ~NegativeRow(timeline) /\ SumIn(timeline, Stored(timeline)) = 0
        /\ NegativeRow(timeline) => \E row \in RowsOf(last.args[1]) : EndFirst(row)

\* C10, amended: as stated, but a negative count comes only from a row whose
\* end precedes its start or whose start is absent while its end is not.
C10_NegativeOnlyIfDisordered ==
    (last.op = "count" /\ start_int <= end_int) =>
        /\ (\A row \in RowsOf(last.args[1]) : Ordered(row)) =>
                ~NegativeRow(timeline) /\ SumIn(timeline, Stored(timeline)) = 0
        /\ NegativeRow(timeline) =>
                \E row \in RowsOf(last.args[1]) : EndFirst(row) \/ StartMissing(row)

\* count of two ordered rows, one of them open-ended, has left two rows of count 1.
C10_Witness ==
    /\ last.op = "count"
    /\ start_int < end_int
    /\ Len(last.args[1]) = 2
    /\ \A row \in RowsOf(last.args[1]) : Ordered(row)
    /\ \E row \in RowsOf(last.args[1]) : IsAbsent(EndOf(row))
    /\ Len(partition_rows(timeline)) = 2
    /\ \A i \in 1..2 : partition_rows(timeline)[i].count = 1

====
